---- MODULE Spec2Model ----
(***************************************************************************)
(* gdip_snapshot: capture a rectangle of the desktop into a DIB section    *)
(* and save it through GDI+ (src/src/main.rs).                             *)
(*                                                                         *)
(* The program is single threaded.  Every OS call is one step; the result  *)
(* of a call that can fail is chosen nondeterministically.  Rust scope     *)
(* exit is modelled by a stack of guards: a function that returns first    *)
(* drops its guards, the last declared first, then hands its result to the *)
(* caller.  Strings are sequences of one-character strings.                *)
(***************************************************************************)
EXTENDS Integers, Sequences, FiniteSets, TLC

VARIABLES
    pc,        \* position of the single thread
    args,      \* env::args(), args[1] being the program name (Arg(0))
    mode,      \* ScreenMode chosen by main: "Virtual", "Primary" or "none"
    filename,  \* output file name handed to capture_rectangle
    rect,      \* (x, y, w, h) handed to capture_rectangle
    guards,    \* live guard values, in declaration order, innermost frame last
    os,        \* state of the OS resources and of the output path
    trace,     \* history: every call and pipeline step made so far
    ret,       \* value being returned by the function that is unwinding
    hbmp,      \* capture_rectangle's local hbmp
    result,    \* capture_rectangle's local result
    ext,       \* save_hbitmap_with_gdiplus's local ext
    num,       \* clsid_for_extension's local num
    encoders,  \* contents of the encoder buffer (ImageCodecInfo array)
    clsid,     \* save_hbitmap_with_gdiplus's local clsid
    exitCode   \* process exit status: "none" while running, "0" or "1"

vars == <<pc, args, mode, filename, rect, guards, os, trace, ret, hbmp,
          result, ext, num, encoders, clsid, exitCode>>

----------------------------------------------------------------------------
(* Bounds of the model.                                                    *)

\* GetSystemMetrics answers lie in -MaxMetric .. MaxMetric.
MaxMetric == 1
\* The image subsystem has at most MaxEncoders encoders installed.
MaxEncoders == 2

----------------------------------------------------------------------------
(* Strings.                                                                *)

Digits == {"0", "1", "2", "3", "4", "5", "6", "7", "8", "9"}

DigitVal(c) ==
    CASE c = "0" -> 0 [] c = "1" -> 1 [] c = "2" -> 2 [] c = "3" -> 3
      [] c = "4" -> 4 [] c = "5" -> 5 [] c = "6" -> 6 [] c = "7" -> 7
      [] c = "8" -> 8 [] c = "9" -> 9

I32Max == 2147483647

\* The digit loop of str::parse::<i32>: checked multiply by ten, then checked
\* add (or, after a minus sign, checked subtract) of the digit.
RECURSIVE Accumulate(_, _, _)
Accumulate(s, acc, neg) ==
    IF s = <<>> THEN [ok |-> TRUE, val |-> acc]
    ELSE LET d    == DigitVal(Head(s))
             q    == I32Max \div 10
             r    == I32Max % 10
             fits == IF neg THEN acc > 0 - q \/ (acc = 0 - q /\ d <= r + 1)
                     ELSE acc < q \/ (acc = q /\ d <= r)
         IN  IF ~fits THEN [ok |-> FALSE, val |-> 0]
             ELSE Accumulate(Tail(s),
                             IF neg THEN acc * 10 - d ELSE acc * 10 + d, neg)

\* str::parse::<i32>: optional sign, at least one digit, nothing else, in range.
ParseI32(s) ==
    LET signed == Len(s) > 0 /\ s[1] \in {"+", "-"}
        body   == IF signed THEN Tail(s) ELSE s
        digits == body # <<>> /\ \A i \in 1..Len(body) : body[i] \in Digits
    IN  IF ~digits THEN [ok |-> FALSE, val |-> 0]
        ELSE Accumulate(body, 0, Len(s) > 0 /\ s[1] = "-")

LowerChar(c) ==
    CASE c = "A" -> "a" [] c = "B" -> "b" [] c = "C" -> "c" [] OTHER -> c

\* str::to_ascii_lowercase
ToAsciiLowercase(s) == [i \in 1..Len(s) |-> LowerChar(s[i])]

\* str::trim_start_matches(c): drop every leading c
RECURSIVE TrimStartMatches(_, _)
TrimStartMatches(s, c) ==
    IF s # <<>> /\ s[1] = c THEN TrimStartMatches(Tail(s), c) ELSE s

RECURSIVE TrimEndMatches(_, _)
TrimEndMatches(s, c) ==
    IF s # <<>> /\ s[Len(s)] = c
    THEN TrimEndMatches(SubSeq(s, 1, Len(s) - 1), c) ELSE s

\* str::trim: drop leading and trailing white space
Trim(s) == TrimEndMatches(TrimStartMatches(s, " "), " ")

\* str::split(c): the pieces between occurrences of c, empty pieces kept
RECURSIVE Split(_, _)
Split(s, c) ==
    IF \A i \in 1..Len(s) : s[i] # c THEN <<s>>
    ELSE LET k == CHOOSE i \in 1..Len(s) :
                      s[i] = c /\ \A j \in 1..(i - 1) : s[j] # c
         IN  <<SubSeq(s, 1, k - 1)>> \o Split(SubSeq(s, k + 1, Len(s)), c)

\* Path::extension for a name without directory separators: the text after the
\* last dot, unless there is no dot, the only dot leads the name, or the name
\* is "..".
PathExtension(name) ==
    LET dots == {i \in 1..Len(name) : name[i] = "."}
        last == CHOOSE i \in dots : \A j \in dots : j <= i
    IN  IF name = <<".", ".">> \/ dots = {} THEN [some |-> FALSE, s |-> <<>>]
        ELSE IF last = 1 THEN [some |-> FALSE, s |-> <<>>]
        ELSE [some |-> TRUE, s |-> SubSeq(name, last + 1, Len(name))]

----------------------------------------------------------------------------
(* Encoder resolution: the scan of clsid_for_extension.                    *)

\* A UTF-16 code unit that is an unpaired surrogate: PCWSTR::to_string fails
\* on a string that holds one.
LoneSurrogate == "<D800>"

Utf16Valid(units) == \A i \in 1..Len(units) : units[i] # LoneSurrogate

\* Want as if the request were not lowercased.
WantCaseSensitive(e) == <<".">> \o TrimStartMatches(e, ".")

\* The normalized request: one dot, then the extension without leading dots,
\* in lower case.
Want(e) == ToAsciiLowercase(<<".">> \o TrimStartMatches(e, "."))

\* One pattern of a descriptor as it is compared: trimmed, leading '*'
\* dropped, in lower case.
NormalizePattern(pat) == ToAsciiLowercase(TrimStartMatches(Trim(pat), "*"))

PatternMatches(exts, want) ==
    LET pats == Split(exts, ";")
    IN  \E k \in 1..Len(pats) : NormalizePattern(pats[k]) = want

NoEncoderFound == "No encoder found for the given extension"
FromUtf16Error == "FromUtf16Error"

\* The loop over the first n descriptors of buf, from descriptor i on.
\* examined is the index of the last descriptor the loop looked at.
RECURSIVE ScanEncoders(_, _, _, _)
ScanEncoders(buf, n, i, want) ==
    IF i > n
    THEN [ok |-> FALSE, clsid |-> 0, hr |-> "E_FAIL", err |-> NoEncoderFound,
          examined |-> n]
    ELSE LET info == buf[i]
         IN  IF info.FilenameExtension.null
             THEN ScanEncoders(buf, n, i + 1, want)
             ELSE IF ~Utf16Valid(info.FilenameExtension.units)
             THEN [ok |-> FALSE, clsid |-> 0,
                   hr |-> "ERROR_NO_UNICODE_TRANSLATION",
                   err |-> FromUtf16Error, examined |-> i]
             ELSE IF PatternMatches(info.FilenameExtension.units, want)
             THEN [ok |-> TRUE, clsid |-> info.Clsid, hr |-> "S_OK", err |-> "",
                   examined |-> i]
             ELSE ScanEncoders(buf, n, i + 1, want)

----------------------------------------------------------------------------
(* The environment: what the OS can answer.                                *)

NullExt == [null |-> TRUE, units |-> <<>>]
Ext(units) == [null |-> FALSE, units |-> units]

\* FilenameExtension values an installed encoder may carry.
FilenameExtensions ==
    { Ext(<<"*", ".", "A">>),
      Ext(<<"*", ".", "B", ";", " ", "*", ".", "a">>),
      Ext(<<"*", ".", LoneSurrogate>>),
      NullExt }

\* The arrays GdipGetImageEncoders may write: descriptor i has Clsid i.
InstalledEncoders ==
    UNION { [1..n -> [Clsid : 1..n, FilenameExtension : FilenameExtensions]]
            : n \in 0..MaxEncoders }

EncoderArrays ==
    { buf \in InstalledEncoders : \A i \in DOMAIN buf : buf[i].Clsid = i }

Origins == (0 - MaxMetric)..0
Sizes   == (0 - 1)..MaxMetric

ProgramName == <<"g">>
FullFlag    == <<"-", "-", "f", "u", "l", "l">>
PrimaryFlag == <<"-", "-", "p", "r", "i", "m", "a", "r", "y">>

FileNames ==
    { <<"o", ".", "a">>, <<"o", ".", "A">>, <<"o", ".", "c">>,
      <<"o", ".">>, <<"o">>, <<".", "a">> }

XTokens == { <<"-", "1">>, <<"x">> }
YTokens == { <<"2">>, <<"-">> }
WTokens == { <<"3">>, <<"0">>,
             <<"2", "1", "4", "7", "4", "8", "3", "6", "4", "8">> }
HTokens == { <<"1">>, <<"-", "1">>, <<"+", "2">>, <<>> }

\* Command lines the program is started with.
ArgVectors ==
    { <<ProgramName, x, y, w, h, f>> :
        x \in XTokens, y \in YTokens, w \in WTokens, h \in HTokens,
        f \in {<<"o", ".", "a">>, <<"o">>} }
    \cup { <<ProgramName, flag, f>> :
             flag \in {FullFlag, PrimaryFlag, <<"-", "v">>}, f \in FileNames }
    \cup { <<ProgramName, f>> : f \in FileNames }
    \cup { <<ProgramName>>, <<ProgramName, <<"1">>, <<"2">>, <<"o", ".", "a">>>> }

----------------------------------------------------------------------------
(* State helpers.                                                          *)

\* Source index i of env::args() (args[0] is the program name).
Arg(i) == args[i + 1]

At(f, l) == [fn |-> f, at |-> l]

\* windows::core::Result values: Ok(()), Ok(hbmp), Ok(clsid), and Err(Error)
\* with the Error's HRESULT and message.
OkUnit ==
    [ok |-> TRUE, hr |-> "S_OK", err |-> "", hbmp |-> "null", clsid |-> 0]
OkHbmp(h) ==
    [ok |-> TRUE, hr |-> "S_OK", err |-> "", hbmp |-> h, clsid |-> 0]
OkClsid(c) ==
    [ok |-> TRUE, hr |-> "S_OK", err |-> "", hbmp |-> "null", clsid |-> c]
ErrorNew(hr, msg) ==
    [ok |-> FALSE, hr |-> hr, err |-> msg, hbmp |-> "null", clsid |-> 0]

\* Error::new(HRESULT(E_FAIL.0), msg)
Err(msg) == ErrorNew("E_FAIL", msg)

\* The ? on a windows-rs call: the Error made of GetLastError().
ErrLast(msg) == ErrorNew("GetLastError", msg)

\* One entry of the history: the call op(arg) made by function fn (or by the
\* drop of one of fn's guards), whether it succeeded, and the OS state it
\* was made in.
Call(op, arg, f, ok) ==
    [op |-> op, arg |-> arg, fn |-> f, ok |-> ok, pre |-> os, val |-> 0]

Guard(f, kind, h) == [fn |-> f, kind |-> kind, h |-> h]

Push(g) == Append(guards, g)
Top     == guards[Len(guards)]
Pop     == SubSeq(guards, 1, Len(guards) - 1)

\* The running function is returning and still owns a guard of this kind on
\* top of the stack.
Dropping(kind) ==
    /\ pc.at = "return"
    /\ guards # <<>>
    /\ Top.fn = pc.fn
    /\ Top.kind = kind

\* The running function is returning and all its guards are dropped.
Returning(f) ==
    /\ pc = At(f, "return")
    /\ IF guards = <<>> THEN TRUE ELSE Top.fn # f

Exit(code) ==
    /\ pc' = At("process", "exit")
    /\ exitCode' = code

InitOs ==
    [ screenDC |-> "none", memDC |-> "none", bitmap |-> "none",
      selected |-> FALSE, session |-> "none", image |-> "none",
      encBuf |-> "none", file |-> "none" ]

Init ==
    /\ args \in ArgVectors
    /\ pc = At("main", "start")
    /\ mode = "none"
    /\ filename = <<>>
    /\ rect = [x |-> 0, y |-> 0, w |-> 0, h |-> 0]
    /\ guards = <<>>
    /\ os = InitOs
    /\ trace = <<>>
    /\ ret = OkUnit
    /\ hbmp = "null"
    /\ result = OkUnit
    /\ ext = <<>>
    /\ num = 0
    /\ encoders = <<>>
    /\ clsid = 0
    /\ exitCode = "none"

----------------------------------------------------------------------------
(* main                                                                    *)

\* ValidSize as if the test were w < 0 || h < 0.
ValidSizeNonNegative(w, h) == ~(w < 0 \/ h < 0)

\* The check both call sites of capture_rectangle make first.
ValidSize(w, h) == ~(w <= 0 \/ h <= 0)

\* args.len() == 6: the explicit rectangle.
MainExplicit ==
    /\ pc = At("main", "start")
    /\ Len(args) = 6
    /\ LET x == ParseI32(Arg(1))
           y == ParseI32(Arg(2))
           w == ParseI32(Arg(3))
           h == ParseI32(Arg(4))
       IN  IF ~(x.ok /\ y.ok /\ w.ok /\ h.ok)
           THEN /\ Exit("1")
                /\ UNCHANGED <<rect, filename>>
           ELSE /\ rect' = [x |-> x.val, y |-> y.val, w |-> w.val, h |-> h.val]
                /\ filename' = Arg(5)
                /\ IF ValidSize(w.val, h.val)
                   THEN /\ pc' = At("capture_rectangle", "GdiplusGuard::new")
                        /\ UNCHANGED exitCode
                   ELSE Exit("1")
    /\ UNCHANGED <<args, mode, guards, os, trace, ret, hbmp, result, ext, num,
                   encoders, clsid>>

\* The (mode, filename) match of main.
ModeOf(a) ==
    IF Len(a) = 3 /\ a[2] = FullFlag THEN "Virtual"
    ELSE IF Len(a) = 3 /\ a[2] = PrimaryFlag THEN "Primary"
    ELSE IF Len(a) = 2 THEN "Primary"
    ELSE "none"

\* flag + filename, or the filename alone.
MainMode ==
    /\ pc = At("main", "start")
    /\ ModeOf(args) # "none"
    /\ mode' = ModeOf(args)
    /\ filename' = args[Len(args)]
    /\ pc' = At("main", "screen_rect")
    /\ UNCHANGED <<args, rect, guards, os, trace, ret, hbmp, result, ext, num,
                   encoders, clsid, exitCode>>

\* Any other command line: usage, exit(1).
MainUsage ==
    /\ pc = At("main", "start")
    /\ Len(args) # 6
    /\ ModeOf(args) = "none"
    /\ Exit("1")
    /\ UNCHANGED <<args, mode, filename, rect, guards, os, trace, ret, hbmp,
                   result, ext, num, encoders, clsid>>

\* screen_rect as if a negative origin were clamped to zero.
screen_rectClamped(m, vx, vy, vw, vh, pw, ph) ==
    IF m = "Virtual"
    THEN [x |-> IF vx < 0 THEN 0 ELSE vx, y |-> IF vy < 0 THEN 0 ELSE vy,
          w |-> vw, h |-> vh]
    ELSE [x |-> 0, y |-> 0, w |-> pw, h |-> ph]

\* screen_rect(mode) for the metrics the display subsystem reports.
screen_rect(m, vx, vy, vw, vh, pw, ph) ==
    IF m = "Virtual" THEN [x |-> vx, y |-> vy, w |-> vw, h |-> vh]
    ELSE [x |-> 0, y |-> 0, w |-> pw, h |-> ph]

\* GetSystemMetrics(index) returning v.
GetSystemMetrics(index, v) ==
    [Call("GetSystemMetrics", index, "screen_rect", TRUE) EXCEPT !.val = v]

\* The metric queries screen_rect makes for mode m, in order.
MetricCalls(m, vx, vy, vw, vh, pw, ph) ==
    IF m = "Virtual"
    THEN << GetSystemMetrics("SM_XVIRTUALSCREEN", vx),
            GetSystemMetrics("SM_YVIRTUALSCREEN", vy),
            GetSystemMetrics("SM_CXVIRTUALSCREEN", vw),
            GetSystemMetrics("SM_CYVIRTUALSCREEN", vh) >>
    ELSE << GetSystemMetrics("SM_CXSCREEN", pw),
            GetSystemMetrics("SM_CYSCREEN", ph) >>

\* let (x, y, w, h) = screen_rect(mode), then the size check.
ScreenRect ==
    /\ pc = At("main", "screen_rect")
    /\ \E vx \in Origins, vy \in Origins, vw \in Sizes, vh \in Sizes,
          pw \in Sizes, ph \in Sizes :
         LET r == screen_rect(mode, vx, vy, vw, vh, pw, ph)
         IN  /\ trace' = trace \o MetricCalls(mode, vx, vy, vw, vh, pw, ph)
             /\ rect' = r
             /\ IF ValidSize(r.w, r.h)
                THEN /\ pc' = At("capture_rectangle", "GdiplusGuard::new")
                     /\ UNCHANGED exitCode
                ELSE Exit("1")
    /\ UNCHANGED <<args, mode, filename, guards, os, ret, hbmp, result, ext,
                   num, encoders, clsid>>

----------------------------------------------------------------------------
(* capture_rectangle, first half, and capture_region                       *)

\* GdiplusStartup as if the guard were bound with let _ = ..: the guard is
\* dropped at once and the session is shut down before any work.
GdiplusStartupLetUnderscore ==
    /\ pc = At("capture_rectangle", "GdiplusGuard::new")
    /\ \E ok \in BOOLEAN :
         IF ok
         THEN /\ trace' = trace \o
                   << Call("GdiplusStartup", "", "capture_rectangle", TRUE),
                      [ Call("GdiplusShutdown", "token", "capture_rectangle", TRUE)
                          EXCEPT !.pre.session = "live" ] >>
              /\ os' = [os EXCEPT !.session = "dead"]
              /\ pc' = At("capture_region", "GetDC")
              /\ UNCHANGED <<ret, guards>>
         ELSE /\ trace' = Append(trace,
                     Call("GdiplusStartup", "", "capture_rectangle", FALSE))
              /\ ret' = Err("GdiplusStartup failed")
              /\ pc' = At("capture_rectangle", "return")
              /\ UNCHANGED <<os, guards>>
    /\ UNCHANGED <<args, mode, filename, rect, hbmp, result, ext, num, encoders,
                   clsid, exitCode>>

\* let _gdip = GdiplusGuard::new()?  (gdip_startup)
GdiplusStartup ==
    /\ pc = At("capture_rectangle", "GdiplusGuard::new")
    /\ \E ok \in BOOLEAN :
         /\ trace' = Append(trace, Call("GdiplusStartup", "", "capture_rectangle", ok))
         /\ IF ok
            THEN /\ os' = [os EXCEPT !.session = "live"]
                 /\ guards' = Push(Guard("capture_rectangle", "GdiplusGuard", "token"))
                 /\ pc' = At("capture_region", "GetDC")
                 /\ UNCHANGED ret
            ELSE /\ ret' = Err("GdiplusStartup failed")
                 /\ pc' = At("capture_rectangle", "return")
                 /\ UNCHANGED <<os, guards>>
    /\ UNCHANGED <<args, mode, filename, rect, hbmp, result, ext, num, encoders,
                   clsid, exitCode>>

GetDC ==
    /\ pc = At("capture_region", "GetDC")
    /\ \E ok \in BOOLEAN :
         /\ trace' = Append(trace, Call("GetDC", "", "capture_region", ok))
         /\ IF ok
            THEN /\ os' = [os EXCEPT !.screenDC = "live"]
                 /\ guards' = Push(Guard("capture_region", "ScreenDcGuard", "hdc_screen"))
                 /\ pc' = At("capture_region", "CreateCompatibleDC")
                 /\ UNCHANGED ret
            ELSE /\ ret' = Err("GetDC failed")
                 /\ pc' = At("capture_region", "return")
                 /\ UNCHANGED <<os, guards>>
    /\ UNCHANGED <<args, mode, filename, rect, hbmp, result, ext, num, encoders,
                   clsid, exitCode>>

CreateCompatibleDC ==
    /\ pc = At("capture_region", "CreateCompatibleDC")
    /\ \E ok \in BOOLEAN :
         /\ trace' = Append(trace,
                Call("CreateCompatibleDC", "hdc_screen", "capture_region", ok))
         /\ IF ok
            THEN /\ os' = [os EXCEPT !.memDC = "live", !.selected = FALSE]
                 /\ guards' = Push(Guard("capture_region", "DcGuard", "mem_dc"))
                 /\ pc' = At("capture_region", "make_dib_section")
                 /\ UNCHANGED ret
            ELSE /\ ret' = Err("CreateCompatibleDC failed")
                 /\ pc' = At("capture_region", "return")
                 /\ UNCHANGED <<os, guards>>
    /\ UNCHANGED <<args, mode, filename, rect, hbmp, result, ext, num, encoders,
                   clsid, exitCode>>

\* let (hbmp, _bits) = make_dib_section(w, h, hdc_screen)?; the guard follows.
MakeDibSection ==
    /\ pc = At("capture_region", "make_dib_section")
    /\ \E ok \in BOOLEAN :
         /\ trace' = Append(trace,
                Call("CreateDIBSection", "hdc_screen", "make_dib_section", ok))
         /\ IF ok
            THEN /\ os' = [os EXCEPT !.bitmap = "live"]
                 /\ guards' = Push(Guard("capture_region", "BitmapGuard", "hbmp"))
                 /\ pc' = At("capture_region", "SelectObject")
                 /\ UNCHANGED ret
            ELSE /\ ret' = ErrLast("CreateDIBSection failed")
                 /\ pc' = At("capture_region", "return")
                 /\ UNCHANGED <<os, guards>>
    /\ UNCHANGED <<args, mode, filename, rect, hbmp, result, ext, num, encoders,
                   clsid, exitCode>>

\* SelectObject as if no SelectGuard were made: the old object is never
\* selected back.
SelectObjectNoGuard ==
    /\ pc = At("capture_region", "SelectObject")
    /\ \E ok \in BOOLEAN :
         /\ trace' = Append(trace, Call("SelectObject", "hbmp", "capture_region", ok))
         /\ IF ok
            THEN /\ os' = [os EXCEPT !.selected = TRUE]
                 /\ pc' = At("capture_region", "BitBlt")
                 /\ UNCHANGED <<ret, guards>>
            ELSE /\ ret' = Err("SelectObject failed")
                 /\ pc' = At("capture_region", "return")
                 /\ UNCHANGED <<os, guards>>
    /\ UNCHANGED <<args, mode, filename, rect, hbmp, result, ext, num, encoders,
                   clsid, exitCode>>

\* SelectObject as if hbmp_guard were declared after _sel_guard: the bitmap
\* guard then drops before the selection is restored.
SelectObjectGuardBelowBitmap ==
    /\ pc = At("capture_region", "SelectObject")
    /\ \E ok \in BOOLEAN :
         /\ trace' = Append(trace, Call("SelectObject", "hbmp", "capture_region", ok))
         /\ IF ok
            THEN /\ os' = [os EXCEPT !.selected = TRUE]
                 /\ guards' = Pop \o <<Guard("capture_region", "SelectGuard", "old"), Top>>
                 /\ pc' = At("capture_region", "BitBlt")
                 /\ UNCHANGED ret
            ELSE /\ ret' = Err("SelectObject failed")
                 /\ pc' = At("capture_region", "return")
                 /\ UNCHANGED <<os, guards>>
    /\ UNCHANGED <<args, mode, filename, rect, hbmp, result, ext, num, encoders,
                   clsid, exitCode>>

\* let old = SelectObject(mem_dc, hbmp); the guard that restores old follows.
SelectObject ==
    /\ pc = At("capture_region", "SelectObject")
    /\ \E ok \in BOOLEAN :
         /\ trace' = Append(trace, Call("SelectObject", "hbmp", "capture_region", ok))
         /\ IF ok
            THEN /\ os' = [os EXCEPT !.selected = TRUE]
                 /\ guards' = Push(Guard("capture_region", "SelectGuard", "old"))
                 /\ pc' = At("capture_region", "BitBlt")
                 /\ UNCHANGED ret
            ELSE /\ ret' = Err("SelectObject failed")
                 /\ pc' = At("capture_region", "return")
                 /\ UNCHANGED <<os, guards>>
    /\ UNCHANGED <<args, mode, filename, rect, hbmp, result, ext, num, encoders,
                   clsid, exitCode>>

\* BitBlt as if its result were discarded (let _ = BitBlt(..)).
BitBltIgnored ==
    /\ pc = At("capture_region", "BitBlt")
    /\ \E ok \in BOOLEAN :
         /\ trace' = Append(trace,
                [Call("BitBlt", "mem_dc", "capture_region", ok)
                    EXCEPT !.val = rect])
         /\ pc' = At("capture_region", "forget")
         /\ UNCHANGED ret
    /\ UNCHANGED <<args, mode, filename, rect, guards, os, hbmp, result, ext,
                   num, encoders, clsid, exitCode>>

BitBlt ==
    /\ pc = At("capture_region", "BitBlt")
    /\ \E ok \in BOOLEAN :
         /\ trace' = Append(trace,
                [Call("BitBlt", "mem_dc", "capture_region", ok)
                    EXCEPT !.val = rect])
         /\ IF ok
            THEN /\ pc' = At("capture_region", "forget")
                 /\ UNCHANGED ret
            ELSE /\ ret' = ErrLast("BitBlt failed")
                 /\ pc' = At("capture_region", "return")
    /\ UNCHANGED <<args, mode, filename, rect, guards, os, hbmp, result, ext,
                   num, encoders, clsid, exitCode>>

\* Forgotten as if std::mem::forget(hbmp_guard) were left out.
NotForgotten(gs, kind) == gs

\* The guard list without the forgotten guard: its drop never runs.
Forgotten(gs, kind) == SelectSeq(gs, LAMBDA g : g.kind # kind)

\* std::mem::forget(hbmp_guard); Ok(hbmp)
Forget ==
    /\ pc = At("capture_region", "forget")
    /\ guards' = Forgotten(guards, "BitmapGuard")
    /\ ret' = OkHbmp("hbmp")
    /\ pc' = At("capture_region", "return")
    /\ UNCHANGED <<args, mode, filename, rect, os, trace, hbmp, result, ext,
                   num, encoders, clsid, exitCode>>

----------------------------------------------------------------------------
(* Drop implementations of the guards.                                     *)

\* What DeleteObject does to a bitmap: nothing when the handle is not live or
\* the bitmap is selected into a live DC.
DeleteObjectOk(o) == o.bitmap = "live" /\ ~(o.selected /\ o.memDC = "live")
DeleteObjectOs(o) ==
    IF DeleteObjectOk(o) THEN [o EXCEPT !.bitmap = "dead"] ELSE o

\* Every drop pops the guard and leaves the rest of the frame alone.
DropFrame ==
    /\ guards' = Pop
    /\ UNCHANGED <<pc, args, mode, filename, rect, ret, hbmp, result, ext, num,
                   encoders, clsid, exitCode>>

\* SelectGuard: SelectObject(self.dc, self.old)
DropSelectGuard ==
    /\ Dropping("SelectGuard")
    /\ trace' = Append(trace,
           Call("SelectObject", Top.h, Top.fn, os.memDC = "live"))
    /\ os' = IF os.memDC = "live" THEN [os EXCEPT !.selected = FALSE] ELSE os
    /\ DropFrame

\* BitmapGuard: DeleteObject(self.0)
DropBitmapGuard ==
    /\ Dropping("BitmapGuard")
    /\ trace' = Append(trace, Call("DeleteObject", Top.h, Top.fn, DeleteObjectOk(os)))
    /\ os' = DeleteObjectOs(os)
    /\ DropFrame

\* DcGuard: DeleteDC(self.0)
DropDcGuard ==
    /\ Dropping("DcGuard")
    /\ trace' = Append(trace, Call("DeleteDC", Top.h, Top.fn, os.memDC = "live"))
    /\ os' = IF os.memDC = "live"
             THEN [os EXCEPT !.memDC = "dead", !.selected = FALSE] ELSE os
    /\ DropFrame

\* ScreenDcGuard: ReleaseDC(None, self.0)
DropScreenDcGuard ==
    /\ Dropping("ScreenDcGuard")
    /\ trace' = Append(trace, Call("ReleaseDC", Top.h, Top.fn, os.screenDC = "live"))
    /\ os' = IF os.screenDC = "live" THEN [os EXCEPT !.screenDC = "dead"] ELSE os
    /\ DropFrame

\* DropGdiplusGuard as if GdiplusGuard had no Drop implementation.
DropGdiplusGuardNoShutdown ==
    /\ Dropping("GdiplusGuard")
    /\ UNCHANGED <<trace, os>>
    /\ DropFrame

\* GdiplusGuard: gdip_shutdown(self.0)
DropGdiplusGuard ==
    /\ Dropping("GdiplusGuard")
    /\ trace' = Append(trace,
           Call("GdiplusShutdown", Top.h, Top.fn, os.session = "live"))
    /\ os' = IF os.session = "live" THEN [os EXCEPT !.session = "dead"] ELSE os
    /\ DropFrame

\* ImgGuard: GdipDisposeImage(self.0) unless the pointer is null
DropImgGuard ==
    /\ Dropping("ImgGuard")
    /\ IF Top.h # "null"
       THEN /\ trace' = Append(trace,
                   Call("GdipDisposeImage", Top.h, Top.fn, os.image = "live"))
            /\ os' = IF os.image = "live" THEN [os EXCEPT !.image = "dead"] ELSE os
       ELSE UNCHANGED <<trace, os>>
    /\ DropFrame

\* EncodersGuard: CoTaskMemFree(Some(self.0))
DropEncodersGuard ==
    /\ Dropping("EncodersGuard")
    /\ trace' = Append(trace, Call("CoTaskMemFree", Top.h, Top.fn, os.encBuf = "live"))
    /\ os' = IF os.encBuf = "live" THEN [os EXCEPT !.encBuf = "dead"] ELSE os
    /\ DropFrame

----------------------------------------------------------------------------
(* save_hbitmap_with_gdiplus and clsid_for_extension                       *)

\* ReturnCaptureRegion as if capture_rectangle deleted the bitmap before it
\* called save_hbitmap_with_gdiplus.
ReturnCaptureRegionDeleteFirst ==
    /\ Returning("capture_region")
    /\ IF ret.ok
       THEN /\ hbmp' = ret.hbmp
            /\ trace' = Append(trace,
                   Call("DeleteObject", ret.hbmp, "capture_rectangle",
                        DeleteObjectOk(os)))
            /\ os' = DeleteObjectOs(os)
            /\ pc' = At("save_hbitmap_with_gdiplus", "GdipCreateBitmapFromHBITMAP")
       ELSE /\ pc' = At("capture_rectangle", "return")
            /\ UNCHANGED <<hbmp, trace, os>>
    /\ UNCHANGED <<args, mode, filename, rect, guards, ret, result, ext, num,
                   encoders, clsid, exitCode>>

\* let hbmp = capture_region(x, y, w, h)?; then the call of save.
ReturnCaptureRegion ==
    /\ Returning("capture_region")
    /\ IF ret.ok
       THEN /\ hbmp' = ret.hbmp
            /\ pc' = At("save_hbitmap_with_gdiplus", "GdipCreateBitmapFromHBITMAP")
       ELSE /\ pc' = At("capture_rectangle", "return")
            /\ UNCHANGED hbmp
    /\ UNCHANGED <<args, mode, filename, rect, guards, os, trace, ret, result,
                   ext, num, encoders, clsid, exitCode>>

\* GdipCreateBitmapFromHBITMAP as if the guard were made of the null pointer
\* bmp starts as: its drop then disposes nothing.
GdipCreateBitmapFromHBITMAPNullGuard ==
    /\ pc = At("save_hbitmap_with_gdiplus", "GdipCreateBitmapFromHBITMAP")
    /\ \E ok \in BOOLEAN :
         /\ trace' = Append(trace,
                Call("GdipCreateBitmapFromHBITMAP", hbmp, "save_hbitmap_with_gdiplus", ok))
         /\ IF ok
            THEN /\ os' = [os EXCEPT !.image = "live"]
                 /\ guards' = Push(Guard("save_hbitmap_with_gdiplus", "ImgGuard", "null"))
                 /\ pc' = At("save_hbitmap_with_gdiplus", "extension")
                 /\ UNCHANGED ret
            ELSE /\ ret' = Err("GdipCreateBitmapFromHBITMAP failed")
                 /\ pc' = At("save_hbitmap_with_gdiplus", "return")
                 /\ UNCHANGED <<os, guards>>
    /\ UNCHANGED <<args, mode, filename, rect, hbmp, result, ext, num, encoders,
                   clsid, exitCode>>

\* Wrap the bitmap; the image is owned by an ImgGuard from here on.
GdipCreateBitmapFromHBITMAP ==
    /\ pc = At("save_hbitmap_with_gdiplus", "GdipCreateBitmapFromHBITMAP")
    /\ \E ok \in BOOLEAN :
         /\ trace' = Append(trace,
                Call("GdipCreateBitmapFromHBITMAP", hbmp, "save_hbitmap_with_gdiplus", ok))
         /\ IF ok
            THEN /\ os' = [os EXCEPT !.image = "live"]
                 /\ guards' = Push(Guard("save_hbitmap_with_gdiplus", "ImgGuard", "bmp"))
                 /\ pc' = At("save_hbitmap_with_gdiplus", "extension")
                 /\ UNCHANGED ret
            ELSE /\ ret' = Err("GdipCreateBitmapFromHBITMAP failed")
                 /\ pc' = At("save_hbitmap_with_gdiplus", "return")
                 /\ UNCHANGED <<os, guards>>
    /\ UNCHANGED <<args, mode, filename, rect, hbmp, result, ext, num, encoders,
                   clsid, exitCode>>

\* Extension as if a missing extension were read as the empty extension
\* (unwrap_or("")) and the encoders were asked for it.
ExtensionOrEmpty ==
    /\ pc = At("save_hbitmap_with_gdiplus", "extension")
    /\ LET e == PathExtension(filename)
       IN  /\ trace' = Append(trace,
                  Call("Path::extension", "filename", "save_hbitmap_with_gdiplus", e.some))
           /\ ext' = e.s
           /\ pc' = At("clsid_for_extension", "GdipGetImageEncodersSize")
           /\ UNCHANGED ret
    /\ UNCHANGED <<args, mode, filename, rect, guards, os, hbmp, result, num,
                   encoders, clsid, exitCode>>

\* Path::new(filename).extension() ... ok_or_else(...)?, then the call of
\* clsid_for_extension(ext).
Extension ==
    /\ pc = At("save_hbitmap_with_gdiplus", "extension")
    /\ LET e == PathExtension(filename)
       IN  /\ trace' = Append(trace,
                  Call("Path::extension", "filename", "save_hbitmap_with_gdiplus", e.some))
           /\ IF e.some
              THEN /\ ext' = e.s
                   /\ pc' = At("clsid_for_extension", "GdipGetImageEncodersSize")
                   /\ UNCHANGED ret
              ELSE /\ ret' = ErrorNew("E_INVALIDARG", "filename has no extension")
                   /\ pc' = At("save_hbitmap_with_gdiplus", "return")
                   /\ UNCHANGED ext
    /\ UNCHANGED <<args, mode, filename, rect, guards, os, hbmp, result, num,
                   encoders, clsid, exitCode>>

\* The size query and the num == 0 || size == 0 test.  The subsystem reports
\* a size of zero exactly when it reports no encoder.
GdipGetImageEncodersSize ==
    /\ pc = At("clsid_for_extension", "GdipGetImageEncodersSize")
    /\ \E ok \in BOOLEAN, n \in 0..MaxEncoders :
         LET query == Call("GdipGetImageEncodersSize", "", "clsid_for_extension", ok)
             test  == Call("num == 0 || size == 0", "", "clsid_for_extension", n # 0)
         IN  IF ~ok
             THEN /\ trace' = Append(trace, query)
                  /\ ret' = Err("GdipGetImageEncodersSize failed")
                  /\ pc' = At("clsid_for_extension", "return")
                  /\ UNCHANGED num
             ELSE /\ trace' = trace \o <<query, test>>
                  /\ num' = n
                  /\ IF n = 0
                     THEN /\ ret' = Err("No image encoders available")
                          /\ pc' = At("clsid_for_extension", "return")
                     ELSE /\ pc' = At("clsid_for_extension", "CoTaskMemAlloc")
                          /\ UNCHANGED ret
    /\ UNCHANGED <<args, mode, filename, rect, guards, os, hbmp, result, ext,
                   encoders, clsid, exitCode>>

\* CoTaskMemAlloc as if the buffer were not put under an EncodersGuard.
CoTaskMemAllocNoGuard ==
    /\ pc = At("clsid_for_extension", "CoTaskMemAlloc")
    /\ \E ok \in BOOLEAN :
         /\ trace' = Append(trace, Call("CoTaskMemAlloc", "", "clsid_for_extension", ok))
         /\ IF ok
            THEN /\ os' = [os EXCEPT !.encBuf = "live"]
                 /\ pc' = At("clsid_for_extension", "GdipGetImageEncoders")
                 /\ UNCHANGED ret
            ELSE /\ ret' = Err("CoTaskMemAlloc failed")
                 /\ pc' = At("clsid_for_extension", "return")
                 /\ UNCHANGED os
    /\ UNCHANGED <<args, mode, filename, rect, guards, hbmp, result, ext, num,
                   encoders, clsid, exitCode>>

\* The buffer of the reported size, owned by an EncodersGuard from here on.
CoTaskMemAlloc ==
    /\ pc = At("clsid_for_extension", "CoTaskMemAlloc")
    /\ \E ok \in BOOLEAN :
         /\ trace' = Append(trace, Call("CoTaskMemAlloc", "", "clsid_for_extension", ok))
         /\ IF ok
            THEN /\ os' = [os EXCEPT !.encBuf = "live"]
                 /\ guards' = Push(Guard("clsid_for_extension", "EncodersGuard", "encoders_ptr"))
                 /\ pc' = At("clsid_for_extension", "GdipGetImageEncoders")
                 /\ UNCHANGED ret
            ELSE /\ ret' = Err("CoTaskMemAlloc failed")
                 /\ pc' = At("clsid_for_extension", "return")
                 /\ UNCHANGED <<os, guards>>
    /\ UNCHANGED <<args, mode, filename, rect, hbmp, result, ext, num, encoders,
                   clsid, exitCode>>

\* The fill call: on success the buffer holds the num installed encoders.
GdipGetImageEncoders ==
    /\ pc = At("clsid_for_extension", "GdipGetImageEncoders")
    /\ \E ok \in BOOLEAN, buf \in EncoderArrays :
         /\ Len(buf) = num
         /\ trace' = Append(trace,
                Call("GdipGetImageEncoders", "encoders_ptr", "clsid_for_extension", ok))
         /\ IF ok
            THEN /\ encoders' = buf
                 /\ pc' = At("clsid_for_extension", "scan")
                 /\ UNCHANGED ret
            ELSE /\ ret' = Err("GdipGetImageEncoders failed")
                 /\ pc' = At("clsid_for_extension", "return")
                 /\ UNCHANGED encoders
    /\ UNCHANGED <<args, mode, filename, rect, guards, os, hbmp, result, ext,
                   num, clsid, exitCode>>

\* MatchEncoder as if an unmatched request fell back to the first encoder.
MatchEncoderFallback(buf, n, e) ==
    LET r == ScanEncoders(buf, n, 1, Want(e))
    IN  IF r.err = NoEncoderFound
        THEN [ok |-> TRUE, clsid |-> buf[1].Clsid, hr |-> "S_OK", err |-> "",
              examined |-> n]
        ELSE r

\* Lines 117-141 as a function of the buffer contents.
MatchEncoder(buf, n, e) == ScanEncoders(buf, n, 1, Want(e))

\* Normalize the request and scan the buffer.
Scan ==
    /\ pc = At("clsid_for_extension", "scan")
    /\ LET r == MatchEncoder(encoders, num, ext)
       IN  /\ trace' = Append(trace,
                  Call("scan", "encoders_ptr", "clsid_for_extension", r.ok))
           /\ ret' = IF r.ok THEN OkClsid(r.clsid) ELSE ErrorNew(r.hr, r.err)
    /\ pc' = At("clsid_for_extension", "return")
    /\ UNCHANGED <<args, mode, filename, rect, guards, os, hbmp, result, ext,
                   num, encoders, clsid, exitCode>>

\* let clsid = clsid_for_extension(ext)?
ReturnClsid ==
    /\ Returning("clsid_for_extension")
    /\ IF ret.ok
       THEN /\ clsid' = ret.clsid
            /\ pc' = At("save_hbitmap_with_gdiplus", "GdipSaveImageToFile")
       ELSE /\ pc' = At("save_hbitmap_with_gdiplus", "return")
            /\ UNCHANGED clsid
    /\ UNCHANGED <<args, mode, filename, rect, guards, os, trace, ret, hbmp,
                   result, ext, num, encoders, exitCode>>

\* What GdipSaveImageToFile may leave at the output path: the whole image when
\* it reports Ok; nothing, or the part written so far, when it does not.
SaveOutcomes ==
    { [ok |-> TRUE,  file |-> "complete"],
      [ok |-> FALSE, file |-> "none"],
      [ok |-> FALSE, file |-> "partial"] }

\* GdipSaveImageToFile as if a failed save were tried a second time.
GdipSaveImageToFileRetry ==
    /\ pc = At("save_hbitmap_with_gdiplus", "GdipSaveImageToFile")
    /\ \E out \in SaveOutcomes :
         /\ trace' = Append(trace,
                Call("GdipSaveImageToFile", "bmp", "save_hbitmap_with_gdiplus", out.ok))
         /\ os' = [os EXCEPT !.file = out.file]
         /\ ret' = IF out.ok THEN OkUnit ELSE Err("GdipSaveImageToFile failed")
         /\ pc' = IF ~out.ok /\ (\A i \in 1..Len(trace) :
                                    trace[i].op # "GdipSaveImageToFile")
                  THEN pc
                  ELSE At("save_hbitmap_with_gdiplus", "return")
    /\ UNCHANGED <<args, mode, filename, rect, guards, hbmp, result, ext, num,
                   encoders, clsid, exitCode>>

\* The one save call: wname, the clsid and no encoder parameters.
GdipSaveImageToFile ==
    /\ pc = At("save_hbitmap_with_gdiplus", "GdipSaveImageToFile")
    /\ \E out \in SaveOutcomes :
         /\ trace' = Append(trace,
                Call("GdipSaveImageToFile", "bmp", "save_hbitmap_with_gdiplus", out.ok))
         /\ os' = [os EXCEPT !.file = out.file]
         /\ ret' = IF out.ok THEN OkUnit ELSE Err("GdipSaveImageToFile failed")
    /\ pc' = At("save_hbitmap_with_gdiplus", "return")
    /\ UNCHANGED <<args, mode, filename, rect, guards, hbmp, result, ext, num,
                   encoders, clsid, exitCode>>

----------------------------------------------------------------------------
(* capture_rectangle, second half, and the end of main                     *)

\* ReturnSave as if the call were written save_hbitmap_with_gdiplus(..)?:
\* an Err leaves capture_rectangle at once.
ReturnSaveQuestionMark ==
    /\ Returning("save_hbitmap_with_gdiplus")
    /\ result' = ret
    /\ pc' = IF ret.ok THEN At("capture_rectangle", "DeleteObject")
             ELSE At("capture_rectangle", "return")
    /\ UNCHANGED <<args, mode, filename, rect, guards, os, trace, ret, hbmp,
                   ext, num, encoders, clsid, exitCode>>

\* let result = save_hbitmap_with_gdiplus(hbmp, filename);
ReturnSave ==
    /\ Returning("save_hbitmap_with_gdiplus")
    /\ result' = ret
    /\ pc' = At("capture_rectangle", "DeleteObject")
    /\ UNCHANGED <<args, mode, filename, rect, guards, os, trace, ret, hbmp,
                   ext, num, encoders, clsid, exitCode>>

\* DeleteObject as if capture_rectangle ended with Ok(()) instead of result.
DeleteObjectThenOk ==
    /\ pc = At("capture_rectangle", "DeleteObject")
    /\ trace' = Append(trace,
           Call("DeleteObject", hbmp, "capture_rectangle", DeleteObjectOk(os)))
    /\ os' = DeleteObjectOs(os)
    /\ ret' = OkUnit
    /\ pc' = At("capture_rectangle", "return")
    /\ UNCHANGED <<args, mode, filename, rect, guards, hbmp, result, ext, num,
                   encoders, clsid, exitCode>>

\* let _ = DeleteObject(hbmp.into()); result
DeleteObject ==
    /\ pc = At("capture_rectangle", "DeleteObject")
    /\ trace' = Append(trace,
           Call("DeleteObject", hbmp, "capture_rectangle", DeleteObjectOk(os)))
    /\ os' = DeleteObjectOs(os)
    /\ ret' = result
    /\ pc' = At("capture_rectangle", "return")
    /\ UNCHANGED <<args, mode, filename, rect, guards, hbmp, result, ext, num,
                   encoders, clsid, exitCode>>

\* capture_rectangle(...)?; Ok(()) in main: an Err leaves main and the
\* process exits with a nonzero status.
ReturnCaptureRectangle ==
    /\ Returning("capture_rectangle")
    /\ Exit(IF ret.ok THEN "0" ELSE "1")
    /\ UNCHANGED <<args, mode, filename, rect, guards, os, trace, ret, hbmp,
                   result, ext, num, encoders, clsid>>

Next ==
    \/ MainExplicit \/ MainMode \/ MainUsage \/ ScreenRect
    \/ GdiplusStartup
    \/ GetDC \/ CreateCompatibleDC \/ MakeDibSection \/ SelectObject \/ BitBlt
    \/ Forget
    \/ DropSelectGuard \/ DropBitmapGuard \/ DropDcGuard \/ DropScreenDcGuard
    \/ DropGdiplusGuard \/ DropImgGuard \/ DropEncodersGuard
    \/ ReturnCaptureRegion
    \/ GdipCreateBitmapFromHBITMAP \/ Extension
    \/ GdipGetImageEncodersSize \/ CoTaskMemAlloc \/ GdipGetImageEncoders \/ Scan
    \/ ReturnClsid
    \/ GdipSaveImageToFile
    \/ ReturnSave \/ DeleteObject \/ ReturnCaptureRectangle

Spec == Init /\ [][Next]_vars

----------------------------------------------------------------------------
(* clsid_for_extension as a function of its argument and of the buffer:    *)
(* the scan is entered with any request and any filled buffer.             *)

\* Values of the parameter ext.
ExtRequests ==
    { <<"a">>, <<"A">>, <<".", "a">>, <<".", "A">>, <<"b">>, <<"B">>,
      <<".", "b">>, <<"c">>, <<".", "C">>, <<>>, <<".">> }

InitResolve ==
    /\ pc = At("clsid_for_extension", "scan")
    /\ ext \in ExtRequests
    /\ encoders \in EncoderArrays
    /\ encoders # <<>>
    /\ num = Len(encoders)
    /\ args = <<ProgramName>>
    /\ mode = "none"
    /\ filename = <<>>
    /\ rect = [x |-> 0, y |-> 0, w |-> 0, h |-> 0]
    /\ guards = <<>>
    /\ os = [InitOs EXCEPT !.session = "live", !.encBuf = "live"]
    /\ trace = <<>>
    /\ ret = OkUnit
    /\ hbmp = "null"
    /\ result = OkUnit
    /\ clsid = 0
    /\ exitCode = "none"

SpecResolve == InitResolve /\ [][Scan]_vars

----------------------------------------------------------------------------
(* The program is one thread of synchronous calls: as long as a step is    *)
(* possible and every OS call returns, the next step is taken.             *)

FairSpec == Spec /\ WF_vars(Next)

----------------------------------------------------------------------------
(* Reading the history.                                                    *)

Entries == 1..Len(trace)

Resources ==
    {"session", "screenDC", "memDC", "bitmap", "selection", "image", "encBuf"}

ResourceOf(e) ==
    CASE e.op \in {"GdiplusStartup", "GdiplusShutdown"}            -> "session"
      [] e.op \in {"GetDC", "ReleaseDC"}                           -> "screenDC"
      [] e.op \in {"CreateCompatibleDC", "DeleteDC"}               -> "memDC"
      [] e.op \in {"CreateDIBSection", "DeleteObject"}             -> "bitmap"
      [] e.op = "SelectObject"                                     -> "selection"
      [] e.op \in {"GdipCreateBitmapFromHBITMAP", "GdipDisposeImage"} -> "image"
      [] e.op \in {"CoTaskMemAlloc", "CoTaskMemFree"}              -> "encBuf"
      [] OTHER                                                     -> "none"

IsAcquire(e) ==
    IF e.op = "SelectObject" THEN e.arg = "hbmp"
    ELSE e.op \in {"GdiplusStartup", "GetDC", "CreateCompatibleDC",
                   "CreateDIBSection", "GdipCreateBitmapFromHBITMAP",
                   "CoTaskMemAlloc"}

IsRelease(e) ==
    IF e.op = "SelectObject" THEN e.arg = "old"
    ELSE e.op \in {"GdiplusShutdown", "ReleaseDC", "DeleteDC", "DeleteObject",
                   "GdipDisposeImage", "CoTaskMemFree"}

\* Successful acquisitions, and release calls, of resource r so far.
Acquires(r) ==
    {i \in Entries : IsAcquire(trace[i]) /\ ResourceOf(trace[i]) = r /\ trace[i].ok}
Releases(r) ==
    {i \in Entries : IsRelease(trace[i]) /\ ResourceOf(trace[i]) = r}

Made(op)      == \E i \in Entries : trace[i].op = op
Succeeded(op) == \E i \in Entries : trace[i].op = op /\ trace[i].ok
FailedAt(op)  == \E i \in Entries : trace[i].op = op /\ ~trace[i].ok

NoneLive(o) ==
    /\ o.screenDC # "live" /\ o.memDC # "live" /\ o.bitmap # "live"
    /\ o.session # "live" /\ o.image # "live" /\ o.encBuf # "live"
    /\ ~o.selected

Exited == pc = At("process", "exit")

\* capture_rectangle has returned to main (or was never entered and the
\* process is over).
CaptureRectangleReturned == Returning("capture_rectangle") \/ Exited

\* capture_region has run its drops and is handing its result to the caller.
CaptureRegionReturned == Returning("capture_region")

----------------------------------------------------------------------------
(* C1..C3: balance, order and ownership of the capture resources.          *)

\* C1: when capture_rectangle has returned, whatever call failed, every
\* resource counts as many release calls as successful acquisitions, every
\* release was given a live resource, and nothing is left live.
C1_ResourceBalance ==
    CaptureRectangleReturned =>
        /\ \A r \in Resources : Cardinality(Acquires(r)) = Cardinality(Releases(r))
        /\ \A i \in Entries : IsRelease(trace[i]) => trace[i].ok
        /\ NoneLive(os)

\* A run in which everything was acquired and the last call, the save, failed.
C1_Witness ==
    /\ Exited
    /\ FailedAt("GdipSaveImageToFile")
    /\ \A r \in Resources : Cardinality(Acquires(r)) = 1

\* C2: the guards of capture_region release in reverse order of acquisition
\* (selection, then the bitmap on failure only, then the memory DC, then the
\* screen DC); the memory DC is never deleted with the bitmap selected into
\* it, the screen DC never released while the memory DC lives; and when
\* capture_region returns all of these releases have happened.
C2_LifoRelease ==
    /\ LET rel == {k \in Entries :
                      IsRelease(trace[k]) /\ trace[k].fn = "capture_region"}
           acq(k) == Acquires(ResourceOf(trace[k]))
       IN  /\ \A k \in rel : acq(k) # {}
           /\ \A k, l \in rel :
                k < l => \A i \in acq(k), j \in acq(l) : j < i
    /\ \A k \in Entries :
         /\ trace[k].op = "DeleteDC" => ~trace[k].pre.selected
         /\ trace[k].op = "ReleaseDC" => trace[k].pre.memDC # "live"
         /\ (trace[k].op = "DeleteObject" /\ trace[k].fn = "capture_region")
               => (~Succeeded("BitBlt") /\ ~trace[k].pre.selected)
    /\ CaptureRegionReturned =>
         /\ \A r \in {"screenDC", "memDC", "selection"} :
              Cardinality(Acquires(r)) = Cardinality(Releases(r))
         /\ ~ret.ok => Cardinality(Acquires("bitmap")) = Cardinality(Releases("bitmap"))
         /\ ret.ok => Releases("bitmap") = {}

\* capture_region has unwound all four guards after a failed BitBlt.
C2_Witness ==
    /\ CaptureRegionReturned
    /\ FailedAt("BitBlt")
    /\ \A r \in {"screenDC", "memDC", "selection", "bitmap"} :
         Cardinality(Releases(r)) = 1

\* C3: the DIB bitmap is deleted exactly once: never a second DeleteObject,
\* never one on a bitmap that is not live; after a failed capture_region the
\* guard made the call and capture_rectangle makes none, after a successful
\* one capture_rectangle makes it, after the save call returned whatever its
\* result; at the end the number of deletions is the number of creations.
C3_BitmapDeletedOnce ==
    /\ Cardinality(Releases("bitmap")) <= Cardinality(Acquires("bitmap"))
    /\ \A k \in Releases("bitmap") :
         /\ trace[k].ok /\ trace[k].pre.bitmap = "live"
         /\ trace[k].fn = "capture_region" => ~Succeeded("BitBlt")
         /\ trace[k].fn = "capture_rectangle" =>
              /\ Succeeded("BitBlt")
              /\ Made("GdipCreateBitmapFromHBITMAP")
              /\ \A i \in Entries : trace[i].op = "GdipSaveImageToFile" => i < k
    /\ CaptureRectangleReturned =>
         /\ Cardinality(Releases("bitmap")) = Cardinality(Acquires("bitmap"))
         /\ os.bitmap # "live"

\* The bitmap was handed to capture_rectangle, the save failed, and
\* capture_rectangle has deleted the bitmap.
C3_Witness ==
    /\ CaptureRectangleReturned
    /\ Succeeded("BitBlt")
    /\ ~result.ok
    /\ \E k \in Releases("bitmap") : trace[k].fn = "capture_rectangle"

----------------------------------------------------------------------------
(* C4, C5: the image-subsystem session.                                    *)

GdipOps ==
    {"GdipCreateBitmapFromHBITMAP", "GdipGetImageEncodersSize",
     "GdipGetImageEncoders", "GdipSaveImageToFile", "GdipDisposeImage"}

\* C4: every image-subsystem call is made with the session open; the session
\* is acquired before any other resource and shut down only when no wrapped
\* image, encoder buffer, bitmap or DC is alive.
C4_SessionBracketing ==
    \A k \in Entries :
        /\ trace[k].op \in GdipOps => trace[k].pre.session = "live"
        /\ (IsAcquire(trace[k]) /\ trace[k].op # "GdiplusStartup")
              => trace[k].pre.session = "live"
        /\ trace[k].op = "GdiplusStartup" => trace[k].pre = InitOs
        /\ trace[k].op = "GdiplusShutdown" =>
              /\ trace[k].pre.session = "live"
              /\ NoneLive([trace[k].pre EXCEPT !.session = "dead"])
              /\ \A r \in Resources \ {"session"} :
                   Cardinality({i \in Acquires(r) : i < k})
                     = Cardinality({i \in Releases(r) : i < k})

\* The session was shut down after a save call that succeeded.
C4_Witness ==
    /\ Made("GdiplusShutdown")
    /\ Succeeded("GdipSaveImageToFile")
    /\ Made("GdipDisposeImage")

\* C5: GdiplusShutdown is called once if GdiplusStartup succeeded and never
\* otherwise; a failed startup is followed by no call at all; a session is
\* never started while one is open or after one was closed, and nothing is
\* called after the shutdown.
C5_SessionShutdown ==
    /\ \A k \in Entries :
         /\ trace[k].op = "GdiplusStartup" => trace[k].pre.session = "none"
         /\ trace[k].op = "GdiplusShutdown" => trace[k].pre.session = "live"
         /\ trace[k].pre.session # "dead"
    /\ Cardinality(Releases("session")) <= Cardinality(Acquires("session"))
    /\ Cardinality(Acquires("session")) <= 1
    /\ FailedAt("GdiplusStartup") =>
         /\ Releases("session") = {}
         /\ trace[Len(trace)].op = "GdiplusStartup"
         /\ os = InitOs
    /\ CaptureRectangleReturned =>
         /\ Cardinality(Releases("session")) = Cardinality(Acquires("session"))
         /\ os.session # "live"

\* The run ended with the session shut down after a failed capture.
C5_Witness ==
    /\ Exited
    /\ FailedAt("GetDC")
    /\ Cardinality(Releases("session")) = 1

----------------------------------------------------------------------------
(* C6, C7: what capture_region hands back.                                 *)

RegionCallsOk ==
    /\ Succeeded("GetDC")
    /\ Succeeded("CreateCompatibleDC")
    /\ Succeeded("CreateDIBSection")
    /\ Acquires("selection") # {}
    /\ Succeeded("BitBlt")

\* C6: capture_region returns a bitmap handle exactly when GetDC,
\* CreateCompatibleDC, CreateDIBSection, SelectObject and BitBlt all
\* succeeded; otherwise it returns an error, no handle reaches
\* capture_rectangle, and a bitmap already created is deleted by then.
C6_NoPartialSurface ==
    /\ CaptureRegionReturned =>
         /\ ret.ok <=> RegionCallsOk
         /\ ret.ok => ret.hbmp # "null"
         /\ ~ret.ok => (ret.hbmp = "null" /\ os.bitmap # "live")
    /\ hbmp # "null" => (RegionCallsOk /\ os.bitmap # "none")
    /\ (~RegionCallsOk /\ pc.fn # "capture_region") => os.bitmap # "live"

\* capture_region returns an error after BitBlt failed, the bitmap deleted.
C6_Witness ==
    /\ CaptureRegionReturned
    /\ FailedAt("BitBlt")
    /\ ~ret.ok
    /\ os.bitmap = "dead"

\* C7: when capture_region returns successfully the screen DC is released,
\* the memory DC is deleted, the old object was selected back into the
\* memory DC before that deletion, and the bitmap is the only live resource
\* capture_region made, selected into no DC.
C7_ExclusiveOwnership ==
    (CaptureRegionReturned /\ ret.ok) =>
        /\ os.screenDC = "dead"
        /\ os.memDC = "dead"
        /\ os.bitmap = "live"
        /\ ~os.selected
        /\ \E s, d \in Entries :
             /\ s < d
             /\ trace[s].op = "SelectObject" /\ trace[s].arg = "old" /\ trace[s].ok
             /\ trace[d].op = "DeleteDC" /\ ~trace[d].pre.selected
        /\ \A k \in Entries : trace[k].op = "DeleteDC" => ~trace[k].pre.selected
        /\ \A i \in 1..Len(guards) : guards[i].fn # "capture_region"

C7_Witness ==
    /\ CaptureRegionReturned
    /\ ret.ok
    /\ Succeeded("BitBlt")

----------------------------------------------------------------------------
(* C8..C10: failures and the region check.                                 *)

\* The steps that failed: calls and pipeline stages, releases apart.
FailedStages == {i \in Entries : ~trace[i].ok /\ ~IsRelease(trace[i])}

\* The error each stage reports.
ErrorsOf(op) ==
    CASE op = "GdiplusStartup" -> {"GdiplusStartup failed"}
      [] op = "GetDC" -> {"GetDC failed"}
      [] op = "CreateCompatibleDC" -> {"CreateCompatibleDC failed"}
      [] op = "CreateDIBSection" -> {"CreateDIBSection failed"}
      [] op = "SelectObject" -> {"SelectObject failed"}
      [] op = "BitBlt" -> {"BitBlt failed"}
      [] op = "GdipCreateBitmapFromHBITMAP" -> {"GdipCreateBitmapFromHBITMAP failed"}
      [] op = "Path::extension" -> {"filename has no extension"}
      [] op = "GdipGetImageEncodersSize" -> {"GdipGetImageEncodersSize failed"}
      [] op = "num == 0 || size == 0" -> {"No image encoders available"}
      [] op = "CoTaskMemAlloc" -> {"CoTaskMemAlloc failed"}
      [] op = "GdipGetImageEncoders" -> {"GdipGetImageEncoders failed"}
      [] op = "scan" -> {NoEncoderFound, FromUtf16Error}
      [] op = "GdipSaveImageToFile" -> {"GdipSaveImageToFile failed"}
      [] OTHER -> {}

\* C8: after the first stage that fails only release calls are made; the
\* value being returned from then on is the error of that stage; the process
\* exits nonzero; and it exits with success only if no stage failed and the
\* save call was made and succeeded.
C8_FailureAborts ==
    /\ \A i \in FailedStages :
         /\ \A j \in Entries : j > i => IsRelease(trace[j])
         /\ ~ret.ok
         /\ ret.err \in ErrorsOf(trace[i].op)
         /\ Exited => exitCode = "1"
    /\ (Exited /\ exitCode = "0") =>
         /\ FailedStages = {}
         /\ ret.ok
         /\ Succeeded("GdipSaveImageToFile")

\* The run ended with the error of the encoder scan, releases having followed.
C8_Witness ==
    /\ Exited
    /\ exitCode = "1"
    /\ FailedAt("scan")
    /\ ret.err = NoEncoderFound
    /\ Made("GdiplusShutdown")

\* C9: at the end of a run either it succeeded and the whole image is at the
\* output path, or it failed and the run left nothing there.
C9_NoPartialFile ==
    Exited =>
        \/ exitCode = "0" /\ os.file = "complete"
        \/ exitCode = "1" /\ os.file = "none"

\* C10: capture_rectangle runs only with width > 0 and height > 0; a run
\* whose explicit or queried width or height is <= 0 ends with a nonzero
\* status having acquired nothing (the only calls are GetSystemMetrics).
C10_RegionValidity ==
    /\ (Made("GdiplusStartup") \/ pc.fn \notin {"main", "process"})
          => (rect.w > 0 /\ rect.h > 0)
    /\ (Exited /\ (rect.w <= 0 \/ rect.h <= 0)) =>
          /\ exitCode = "1"
          /\ os = InitOs
          /\ guards = <<>>
          /\ \A k \in Entries : trace[k].op = "GetSystemMetrics"

\* An explicit rectangle of width 0 was parsed and the process is over.
C10_Witness ==
    /\ Exited
    /\ Len(args) = 6
    /\ ParseI32(Arg(3)).ok
    /\ rect.w = 0
    /\ rect.h > 0

----------------------------------------------------------------------------
(* C11..C13: encoder resolution.                                           *)

\* Descriptor i of the buffer carries a decodable extension list one of whose
\* patterns is the request e.
Lists(buf, i, e) ==
    /\ ~buf[i].FilenameExtension.null
    /\ Utf16Valid(buf[i].FilenameExtension.units)
    /\ PatternMatches(buf[i].FilenameExtension.units, Want(e))

\* The scan of the encoder buffer has been made.
Scanned == Made("scan")

\* C11: when no enumerated encoder lists the requested extension the scan
\* ends in an error and no encoder identity is produced; GdipSaveImageToFile
\* is not called, nothing is written at the output path and the process
\* exits nonzero.
C11_NoMatchFailsClosed ==
    (Scanned /\ \A i \in 1..num : ~Lists(encoders, i, ext)) =>
        /\ ~ret.ok
        /\ ret.clsid = 0
        /\ clsid = 0
        /\ ~Made("GdipSaveImageToFile")
        /\ os.file = "none"
        /\ Exited => exitCode = "1"

\* A run for "o.c", which no installed encoder lists, is over.
C11_Witness ==
    /\ Exited
    /\ ext = <<"c">>
    /\ num > 0
    /\ Scanned
    /\ ret.err = NoEncoderFound
    /\ \A i \in 1..num : ~encoders[i].FilenameExtension.null

CasePairs == {{"a", "A"}, {"b", "B"}, {"c", "C"}}

\* The strings a and b differ at most in the case of ASCII letters.
SameUpToCase(a, b) ==
    /\ Len(a) = Len(b)
    /\ \A i \in 1..Len(a) : a[i] = b[i] \/ {a[i], b[i]} \in CasePairs

\* The requests a and b differ at most in letter case and in one of them
\* having a leading dot.
Variant(a, b) ==
    \/ SameUpToCase(a, b)
    \/ SameUpToCase(<<".">> \o a, b)
    \/ SameUpToCase(a, <<".">> \o b)

\* C12: the scan gives the request the result it gives every variant of it
\* that differs only in ASCII letter case or in a leading dot, and an encoder
\* whose pattern is "*.A" is found for the requests "a", "A", ".a" and ".A".
C12_CaseDotInsensitive ==
    (pc = At("clsid_for_extension", "return") /\ Scanned) =>
        /\ \A v \in ExtRequests :
             Variant(v, ext) =>
                LET r == MatchEncoder(encoders, num, v)
                IN  /\ r.ok = ret.ok
                    /\ r.clsid = ret.clsid
                    /\ r.err = ret.err
        /\ ( /\ encoders[1].FilenameExtension = Ext(<<"*", ".", "A">>)
             /\ Variant(ext, <<"a">>) )
              => (ret.ok /\ ret.clsid = 1)

\* The request ".A" was resolved to the second encoder, whose list holds
\* the pattern " *.a".
C12_Witness ==
    /\ pc = At("clsid_for_extension", "return")
    /\ ext = <<".", "A">>
    /\ encoders[1].FilenameExtension.null
    /\ ret.ok
    /\ ret.clsid = 2

\* The first descriptor of the buffer that lists the request e.
FirstListing(buf, n, e) ==
    CHOOSE k \in 1..n :
        /\ Lists(buf, k, e)
        /\ \A j \in 1..(k - 1) : ~Lists(buf, j, e)

\* C13: whenever some descriptor of the buffer lists the request, the scan
\* returns the identity of the first such descriptor in enumeration order and
\* looks at no descriptor after it.
C13_FirstMatchWins ==
    ( /\ pc = At("clsid_for_extension", "return")
      /\ Scanned
      /\ \E k \in 1..num : Lists(encoders, k, ext) ) =>
        LET first == FirstListing(encoders, num, ext)
        IN  /\ ret.ok
            /\ ret.clsid = encoders[first].Clsid
            /\ MatchEncoder(encoders, num, ext).examined = first

----------------------------------------------------------------------------
(* C14: the region handed to capture_rectangle. *)

\* What GetSystemMetrics(index) returned in this run.
MetricValue(index) ==
    LET k == CHOOSE k \in Entries :
                 trace[k].op = "GetSystemMetrics" /\ trace[k].arg = index
    IN  trace[k].val

\* capture_rectangle(x, y, w, h, filename) has been entered.
CaptureRectangleCalled == Made("GdiplusStartup")

\* C14: the region capture_rectangle is called with is, with --full, the four
\* virtual-desktop metrics as reported (a negative x or y included); with
\* --primary or no flag, {0, 0, primary width, primary height}; and with
\* five arguments, the four parsed numbers ("-1" giving x = -1).
C14_RegionVerbatim ==
    CaptureRectangleCalled =>
        /\ mode = "Virtual" =>
              rect = [x |-> MetricValue("SM_XVIRTUALSCREEN"),
                      y |-> MetricValue("SM_YVIRTUALSCREEN"),
                      w |-> MetricValue("SM_CXVIRTUALSCREEN"),
                      h |-> MetricValue("SM_CYVIRTUALSCREEN")]
        /\ mode = "Primary" =>
              rect = [x |-> 0, y |-> 0,
                      w |-> MetricValue("SM_CXSCREEN"),
                      h |-> MetricValue("SM_CYSCREEN")]
        /\ Len(args) = 6 =>
              /\ rect = [x |-> ParseI32(Arg(1)).val, y |-> ParseI32(Arg(2)).val,
                         w |-> ParseI32(Arg(3)).val, h |-> ParseI32(Arg(4)).val]
              /\ Arg(1) = <<"-", "1">> => rect.x = 0 - 1
              /\ Arg(2) = <<"2">> => rect.y = 2
        /\ Made("BitBlt") => rect = trace[CHOOSE k \in Entries :
                                            trace[k].op = "BitBlt"].val

\* A --full capture of a virtual desktop whose origin is left of and above
\* the primary display got as far as the copy.
C14_Witness ==
    /\ mode = "Virtual"
    /\ rect.x < 0
    /\ rect.y < 0
    /\ Made("BitBlt")

----------------------------------------------------------------------------
(* C15: the encoder buffer of clsid_for_extension. *)

\* The entries of the history made by calls of op.
CallsOf(op) == {k \in Entries : trace[k].op = op}

\* clsid_for_extension was called and has handed its result to its caller.
ClsidForExtensionReturned ==
    /\ Made("GdipGetImageEncodersSize")
    /\ pc.fn # "clsid_for_extension"

\* The size query failed, or it reported no encoder.
NothingToEnumerate ==
    \/ FailedAt("GdipGetImageEncodersSize")
    \/ FailedAt("num == 0 || size == 0")

\* C15: after a failed size query or a report of zero encoders no buffer is
\* allocated and the result is an error; an allocated buffer is freed exactly
\* once, while live, by the time clsid_for_extension has returned, whichever
\* way it returned; a buffer that was not allocated is never freed; and the
\* fill call and the scan only ever touch a live buffer.
C15_EncoderBufferLifetime ==
    /\ NothingToEnumerate =>
          /\ ~Made("CoTaskMemAlloc")
          /\ ~Made("CoTaskMemFree")
          /\ os.encBuf = "none"
          /\ ~ret.ok
    /\ Cardinality(CallsOf("CoTaskMemAlloc")) <= 1
    /\ Cardinality(CallsOf("CoTaskMemFree")) <= Cardinality(Acquires("encBuf"))
    /\ \A k \in CallsOf("CoTaskMemFree") : trace[k].pre.encBuf = "live"
    /\ \A k \in CallsOf("GdipGetImageEncoders") \cup CallsOf("scan") :
          /\ trace[k].pre.encBuf = "live"
          /\ \A j \in CallsOf("CoTaskMemFree") : k < j
    /\ ClsidForExtensionReturned =>
          /\ Cardinality(CallsOf("CoTaskMemFree")) = Cardinality(Acquires("encBuf"))
          /\ os.encBuf # "live"
          /\ (FailedAt("GdipGetImageEncoders") \/ Made("scan")) =>
                Cardinality(CallsOf("CoTaskMemFree")) = 1

\* clsid_for_extension has returned the decoding error of an extension string
\* and the buffer it read it from has been freed.
C15_Witness ==
    /\ ClsidForExtensionReturned
    /\ ret.err = FromUtf16Error
    /\ Made("CoTaskMemFree")
    /\ os.encBuf = "dead"

----------------------------------------------------------------------------
(* C16: the wrapped image of save_hbitmap_with_gdiplus. *)

\* save_hbitmap_with_gdiplus was called and has handed its result to
\* capture_rectangle.
SaveReturned ==
    /\ Made("GdipCreateBitmapFromHBITMAP")
    /\ pc.fn \notin {"save_hbitmap_with_gdiplus", "clsid_for_extension"}

\* The ways save_hbitmap_with_gdiplus returns once the bitmap is wrapped.
SaveExitPaths ==
    { FailedAt("Path::extension"),
      Made("GdipGetImageEncodersSize") /\ ~Made("GdipSaveImageToFile"),
      FailedAt("GdipSaveImageToFile"),
      Succeeded("GdipSaveImageToFile") }

\* C16: a failed wrap returns an error and GdipDisposeImage is never called;
\* after a successful wrap the image has been disposed exactly once, while
\* live, when save_hbitmap_with_gdiplus has returned, whichever way it
\* returned; and the save call is given a live image, before the disposal.
C16_ImageDisposal ==
    /\ FailedAt("GdipCreateBitmapFromHBITMAP") =>
          /\ ~Made("GdipDisposeImage")
          /\ os.image = "none"
          /\ ~ret.ok
    /\ Cardinality(CallsOf("GdipCreateBitmapFromHBITMAP")) <= 1
    /\ Cardinality(CallsOf("GdipDisposeImage")) <= Cardinality(Acquires("image"))
    /\ \A k \in CallsOf("GdipDisposeImage") : trace[k].pre.image = "live"
    /\ \A k \in CallsOf("GdipSaveImageToFile") :
          /\ trace[k].pre.image = "live"
          /\ \A j \in CallsOf("GdipDisposeImage") : k < j
    /\ (SaveReturned /\ Succeeded("GdipCreateBitmapFromHBITMAP")) =>
          /\ Cardinality(CallsOf("GdipDisposeImage")) = 1
          /\ os.image = "dead"
          /\ TRUE \in SaveExitPaths

\* The save call failed and save_hbitmap_with_gdiplus has returned with the
\* image disposed.
C16_Witness ==
    /\ SaveReturned
    /\ FailedAt("GdipSaveImageToFile")
    /\ Made("GdipDisposeImage")
    /\ os.image = "dead"

----------------------------------------------------------------------------
(* C17: the captured bitmap in capture_rectangle. *)

\* The call of entry e is handed the bitmap handle, or copies into the
\* bitmap through the memory DC it is selected into.
ReceivesBitmap(e) == e.arg = "hbmp" \/ e.op = "BitBlt"

\* The DeleteObject(hbmp) calls capture_rectangle itself has made.
OwnerDeletes ==
    {k \in CallsOf("DeleteObject") : trace[k].fn = "capture_rectangle"}

\* C17: capture_rectangle deletes the captured bitmap at most once, while it
\* is live; the deletion comes after the wrap and save calls and after the
\* disposal of the image wrapped around it, with no image live any more, and
\* before the session is shut down; and every call that receives the bitmap
\* handle receives it live.
C17_NoUseAfterRelease ==
    /\ Cardinality(OwnerDeletes) <= 1
    /\ \A k \in OwnerDeletes :
          /\ trace[k].ok
          /\ trace[k].pre.bitmap = "live"
          /\ trace[k].pre.image # "live"
          /\ trace[k].pre.session = "live"
          /\ Succeeded("GdipCreateBitmapFromHBITMAP") => Made("GdipDisposeImage")
          /\ \A j \in CallsOf("GdipCreateBitmapFromHBITMAP")
                      \cup CallsOf("GdipSaveImageToFile")
                      \cup CallsOf("GdipDisposeImage") : j < k
          /\ \A j \in CallsOf("GdiplusShutdown") : k < j
          /\ \A j \in Entries : ReceivesBitmap(trace[j]) => j <= k
    /\ \A j \in Entries : ReceivesBitmap(trace[j]) => trace[j].pre.bitmap = "live"
    /\ (CaptureRectangleReturned /\ Succeeded("BitBlt")) => OwnerDeletes # {}

\* The image was saved and disposed, capture_rectangle deleted the bitmap and
\* the session has been shut down.
C17_Witness ==
    /\ Succeeded("GdipSaveImageToFile")
    /\ OwnerDeletes # {}
    /\ Made("GdiplusShutdown")
    /\ os.bitmap = "dead"

----------------------------------------------------------------------------
(* C18: an output filename without extension. *)

EncoderOps ==
    {"GdipGetImageEncodersSize", "num == 0 || size == 0", "CoTaskMemAlloc",
     "GdipGetImageEncoders", "scan", "CoTaskMemFree"}

\* C18: when the filename has no extension, the bitmap was wrapped before
\* that was found out; the result is the E_INVALIDARG error "filename has no
\* extension"; no encoder is enumerated and nothing is saved; and when
\* capture_rectangle hands the error to main the image has been disposed,
\* then the bitmap deleted, then the session shut down, and the exit status
\* is 1.
C18_MissingExtension ==
    FailedAt("Path::extension") =>
        /\ Succeeded("GdipCreateBitmapFromHBITMAP")
        /\ \A k \in CallsOf("GdipCreateBitmapFromHBITMAP"),
              j \in CallsOf("Path::extension") : k < j
        /\ ~ret.ok
        /\ ret.hr = "E_INVALIDARG"
        /\ ret.err = "filename has no extension"
        /\ \A k \in Entries : trace[k].op \notin EncoderOps
        /\ ~Made("GdipSaveImageToFile")
        /\ os.file = "none"
        /\ CaptureRectangleReturned =>
              /\ \E i \in CallsOf("GdipDisposeImage"), j \in OwnerDeletes,
                    k \in CallsOf("GdiplusShutdown") :
                    /\ i < j /\ j < k
                    /\ trace[i].ok /\ trace[j].ok /\ trace[k].ok
              /\ os.image = "dead" /\ os.bitmap = "dead" /\ os.session = "dead"
        /\ Exited => exitCode = "1"

\* A run for the output file "o" is over.
C18_Witness ==
    /\ Exited
    /\ filename = <<"o">>
    /\ FailedAt("Path::extension")
    /\ Made("GdiplusShutdown")

----------------------------------------------------------------------------
(* C19: one run, one result. *)

\* The calls a run makes on its way to a saved file, in order.
Stages ==
    << "GdiplusStartup", "GetDC", "CreateCompatibleDC", "CreateDIBSection",
       "BitBlt", "GdipCreateBitmapFromHBITMAP", "Path::extension",
       "GdipGetImageEncodersSize", "CoTaskMemAlloc", "GdipGetImageEncoders",
       "scan", "GdipSaveImageToFile" >>

\* Every stage was made once and succeeded.
AllStagesSucceeded ==
    \A s \in 1..Len(Stages) :
        /\ Cardinality(CallsOf(Stages[s])) = 1
        /\ Succeeded(Stages[s])

\* C19: every run whose OS calls all return reaches exit, with status 0 or 1;
\* at exit no resource is held; GdipSaveImageToFile is called at most once
\* in a run; and the status is 0 only if session start, capture, wrap,
\* extension extraction, encoder resolution and exactly one save call all
\* succeeded.
C19_OneShotTermination ==
    /\ <>Exited
    /\ [](Exited => (exitCode \in {"0", "1"} /\ NoneLive(os) /\ guards = <<>>))
    /\ [](Cardinality(CallsOf("GdipSaveImageToFile")) <= 1)
    /\ []((Exited /\ exitCode = "0") =>
            /\ AllStagesSucceeded
            /\ \A k \in Entries : trace[k].ok
            /\ os.file = "complete")

\* A run has exited with status 0 after its one save call.
C19_Witness ==
    /\ Exited
    /\ exitCode = "0"
    /\ Cardinality(CallsOf("GdipSaveImageToFile")) = 1

====
